---- MODULE Spec2Model ----
(***************************************************************************)
(* FileUtils.performOperation (file.utils.js) and the two Express routes   *)
(* that call it (index.js), over a small tree-shaped file system.          *)
(*                                                                         *)
(* A call is one atomic step from pc = "idle" to pc = "settled": the       *)
(* promise returned by performOperation settles with `out`.  The caller's  *)
(* continuation (await resuming, .then / .catch callback) is a second step *)
(* back to "idle".                                                         *)
(***************************************************************************)
EXTENDS Integers, Sequences, FiniteSets, TLC

\* ----------------------------------------------------------------- bounds
MaxDepth == 3
MaxDataLen == 2

\* ------------------------------------------------------------ path model
Names == {"a", "b"}
Cwd == <<"cwd">>

RECURSIVE SeqsOfLen(_, _)
SeqsOfLen(S, n) ==
    IF n = 0 THEN {<<>>}
    ELSE {Append(s, x) : s \in SeqsOfLen(S, n - 1), x \in S}

SeqsUpTo(S, n) == UNION {SeqsOfLen(S, k) : k \in 0..n}

\* Relative paths of the tree: only a directory named "a" has children.
RelPaths ==
    {p \in SeqsUpTo(Names, MaxDepth) :
        Len(p) >= 1 /\ \A i \in 1..(Len(p) - 1) : p[i] = "a"}

Paths == {Cwd \o p : p \in RelPaths}

\* path.resolve: joins onto the working directory and folds ".." segments.
RECURSIVE Normalize(_, _)
Normalize(acc, segs) ==
    IF segs = <<>> THEN acc
    ELSE IF Head(segs) = ".."
         THEN Normalize(IF acc = <<>> THEN acc ELSE SubSeq(acc, 1, Len(acc) - 1),
                        Tail(segs))
         ELSE Normalize(Append(acc, Head(segs)), Tail(segs))

Resolve(filePath) == Normalize(Cwd, filePath)

\* path.dirname of an absolute path.
Dirname(fullPath) == SubSeq(fullPath, 1, Len(fullPath) - 1)

\* What a caller may pass as filePath: a path of the tree, or a path at the top
\* of the tree reached by a detour through a sibling ("b/../a").
InputPaths ==
    RelPaths \cup {<<n, "..">> \o p : n \in Names, p \in SeqsOfLen(Names, 1)}

\* The paths a/a/.../a: a file at the bottom of a chain of directories.
ChainPaths == {p \in RelPaths : \A i \in 1..Len(p) : p[i] = "a"}

IsPrefix(p, q) == Len(p) <= Len(q) /\ SubSeq(q, 1, Len(p)) = p

\* ------------------------------------------------------------ data model
\* Code units of the strings (e-acute, U+00E9) and bytes of the Buffers (0xC3 and
\* 0xA9: together the UTF-8 form of U+00E9, each alone ill-formed) callers pass.
Chars == {233}
Bytes == {195, 169}

NoData == [kind |-> "null", units |-> <<>>]
Str(u) == [kind |-> "string", units |-> u]
Buf(u) == [kind |-> "buffer", units |-> u]

Strings == {Str(u) : u \in SeqsUpTo(Chars, MaxDataLen)}
Buffers == {Buf(u) : u \in SeqsUpTo(Bytes, MaxDataLen)}
DataValues == Strings \cup Buffers \cup {NoData}

IsCont(b) == b >= 128 /\ b <= 191

\* Buffer.from(string, 'utf8'): a lone surrogate is written as U+FFFD.
EncodeChar(c) ==
    IF c < 128 THEN <<c>>
    ELSE IF c < 2048 THEN <<192 + (c \div 64), 128 + (c % 64)>>
    ELSE LET d == IF c >= 55296 /\ c <= 57343 THEN 65533 ELSE c
         IN  <<224 + (d \div 4096), 128 + ((d \div 64) % 64), 128 + (d % 64)>>

RECURSIVE Utf8Encode(_)
Utf8Encode(units) ==
    IF units = <<>> THEN <<>>
    ELSE EncodeChar(Head(units)) \o Utf8Encode(Tail(units))

\* buffer.toString('utf8'): an ill-formed byte decodes to U+FFFD.
RECURSIVE Utf8Decode(_)
Utf8Decode(bytes) ==
    IF bytes = <<>> THEN <<>>
    ELSE LET b == Head(bytes)
             n == Len(bytes)
         IN  IF b < 128 THEN <<b>> \o Utf8Decode(Tail(bytes))
             ELSE IF b >= 194 /\ b <= 223 /\ n >= 2 /\ IsCont(bytes[2])
                  THEN <<(b - 192) * 64 + (bytes[2] - 128)>>
                       \o Utf8Decode(SubSeq(bytes, 3, n))
             ELSE IF b >= 225 /\ b <= 239 /\ b # 237 /\ n >= 3
                     /\ IsCont(bytes[2]) /\ IsCont(bytes[3])
                  THEN <<(b - 224) * 4096 + (bytes[2] - 128) * 64 + (bytes[3] - 128)>>
                       \o Utf8Decode(SubSeq(bytes, 4, n))
             ELSE <<65533>> \o Utf8Decode(Tail(bytes))

\* Every byte string a file of the model can hold.
Contents ==
    {Utf8Encode(s.units) : s \in Strings} \cup {b.units : b \in Buffers}

\* ------------------------------------------------------------ file system
Absent == [kind |-> "absent", bytes |-> <<>>]
Dir == [kind |-> "dir", bytes |-> <<>>]
File(bytes) == [kind |-> "file", bytes |-> bytes]
Entries == {Absent, Dir} \cup {File(c) : c \in Contents}

\* The working directory and everything above it are directories.
Kind(f, p) == IF p \in Paths THEN f[p].kind
              ELSE IF IsPrefix(p, Cwd) THEN "dir" ELSE "absent"

\* An entry exists only inside a directory.
ValidFs(f) ==
    \A p \in Paths : f[p].kind # "absent" => Kind(f, Dirname(p)) = "dir"

\* The file systems a run may start from: every tree of directories and files.
InitialEntries == {Absent, Dir, File(Utf8Encode(<<233>>))}
FileSystems == {f \in [Paths -> InitialEntries] : ValidFs(f)}
EmptyFs == [p \in Paths |-> Absent]

\* Path lookup as the kernel does it: "" when p names an entry, else the errno.
RECURSIVE Lookup(_, _, _)
Lookup(f, p, i) ==
    IF i > Len(p) THEN ""
    ELSE LET k == Kind(f, SubSeq(p, 1, i))
         IN  IF k = "absent" THEN "ENOENT"
             ELSE IF k = "file" /\ i < Len(p) THEN "ENOTDIR"
             ELSE Lookup(f, p, i + 1)

Errno(f, p) == Lookup(f, p, 1)

\* ------------------------------------------------------------------ errors
NoError == [name |-> "none"]

SysMessage(code) ==
    CASE code = "ENOENT" -> "ENOENT: no such file or directory"
      [] code = "ENOTDIR" -> "ENOTDIR: not a directory"
      [] code = "EISDIR" -> "EISDIR: illegal operation on a directory"
      [] code = "EACCES" -> "EACCES: permission denied"
      [] code = "EEXIST" -> "EEXIST: file already exists"
      [] code = "ECONNABORTED" -> "Request aborted"
      [] OTHER -> "The \"data\" argument must be of type string or an instance of Buffer"

\* An error raised by the runtime: it carries a code.
SysError(code) == [name |-> "Error", code |-> code, message |-> SysMessage(code)]

\* new Error(message): no code.
PlainError(message) == [name |-> "Error", code |-> "", message |-> message]

\* error.code is truthy.  A FileUtilsError has no code property.
HasCode(error) == "code" \in DOMAIN error /\ error.code # ""

\* The table without its EISDIR row.
FormatErrorMessageNoEisdir(error) ==
    IF HasCode(error)
    THEN CASE error.code = "ENOENT" -> "File not found"
           [] error.code = "EACCES" -> "Permission denied"
           [] error.code = "ENOTDIR" -> "Not a directory"
           [] OTHER -> error.message
    ELSE error.message

FormatErrorMessage(error) ==
    IF HasCode(error)
    THEN CASE error.code = "ENOENT" -> "File not found"
           [] error.code = "EACCES" -> "Permission denied"
           [] error.code = "ENOTDIR" -> "Not a directory"
           [] error.code = "EISDIR" -> "Is a directory, not a file"
           [] OTHER -> error.message
    ELSE error.message

FileUtilsError(originalError, operation, filePath) ==
    [name |-> "FileUtilsError",
     message |-> FormatErrorMessage(originalError),
     operation |-> operation,
     filePath |-> filePath,
     originalError |-> originalError]

\* ------------------------------------------------- file-system primitives
\* Each step yields the file system it leaves, the error it threw (NoError
\* when it returned), its value, the primitives it invoked, in order, and what
\* it wrote to the download sink.
Undefined == [kind |-> "undefined", units |-> <<>>]
Message(text) == [kind |-> "message", units |-> <<>>, text |-> text]

Returned(f, value, prims) ==
    [fs |-> f, error |-> NoError, value |-> value, prims |-> prims, wrote |-> <<>>]
Thrown(f, error, prims) ==
    [fs |-> f, error |-> error, value |-> Undefined, prims |-> prims, wrote |-> <<>>]

Threw(s) == s.error.name # "none"

\* s, then r run from s.fs.
Then(s, r) == [r EXCEPT !.prims = s.prims \o r.prims, !.wrote = s.wrote \o r.wrote]

\* fs.access(p, F_OK)
Access(f, p) ==
    IF Errno(f, p) = "" THEN Returned(f, Undefined, <<"access">>)
    ELSE Thrown(f, SysError(Errno(f, p)), <<"access">>)

\* fs.readFile(p, encoding)
ReadFile(f, p, encoding) ==
    IF Errno(f, p) # "" THEN Thrown(f, SysError(Errno(f, p)), <<"readFile">>)
    ELSE IF f[p].kind = "dir" THEN Thrown(f, SysError("EISDIR"), <<"readFile">>)
    ELSE Returned(f, IF encoding = "utf8" THEN Str(Utf8Decode(f[p].bytes))
                     ELSE Buf(f[p].bytes), <<"readFile">>)

\* fs.writeFile(p, data, encoding): the data is validated before the file is
\* opened; a string is encoded as UTF-8 whatever the encoding argument (null
\* falls back to 'utf8'), a Buffer is written as it is.
WriteFile(f, p, data, encoding) ==
    IF data.kind = "null"
    THEN Thrown(f, SysError("ERR_INVALID_ARG_TYPE"), <<"writeFile">>)
    ELSE IF Errno(f, Dirname(p)) # ""
    THEN Thrown(f, SysError(Errno(f, Dirname(p))), <<"writeFile">>)
    ELSE IF Kind(f, Dirname(p)) # "dir"
    THEN Thrown(f, SysError("ENOTDIR"), <<"writeFile">>)
    ELSE IF f[p].kind = "dir"
    THEN Thrown(f, SysError("EISDIR"), <<"writeFile">>)
    ELSE Returned([f EXCEPT ![p] = File(IF data.kind = "string"
                                        THEN Utf8Encode(data.units)
                                        ELSE data.units)],
                  Undefined, <<"writeFile">>)

\* fs.mkdir(dir, {recursive: true})
Mkdir(f, dir) ==
    IF \E i \in 1..Len(dir) : Kind(f, SubSeq(dir, 1, i)) = "file"
    THEN Thrown(f, SysError(IF Kind(f, dir) = "file" THEN "EEXIST" ELSE "ENOTDIR"),
                <<"mkdir">>)
    ELSE Returned([q \in Paths |-> IF IsPrefix(q, dir) THEN Dir ELSE f[q]],
                  Undefined, <<"mkdir">>)

\* fs.unlink(p)
Unlink(f, p) ==
    IF Errno(f, p) # "" THEN Thrown(f, SysError(Errno(f, p)), <<"unlink">>)
    ELSE IF f[p].kind = "dir" THEN Thrown(f, SysError("EISDIR"), <<"unlink">>)
    ELSE Returned([f EXCEPT ![p] = Absent], Undefined, <<"unlink">>)

\* fs.rm(p, {recursive: true, force}): force ignores a path that is not there.
Rm(f, p, force) ==
    IF Errno(f, p) = "ENOENT" /\ force THEN Returned(f, Undefined, <<"rm">>)
    ELSE IF Errno(f, p) # "" THEN Thrown(f, SysError(Errno(f, p)), <<"rm">>)
    ELSE Returned([q \in Paths |-> IF IsPrefix(p, q) THEN Absent ELSE f[q]],
                  Undefined, <<"rm">>)

\* ------------------------------------------------------------ FileUtils
\* catch (error) { throw new FileUtilsError(error, operation, filePath) } around s.
WrapAs(s, operation, filePath) ==
    IF Threw(s)
    THEN [s EXCEPT !.error = FileUtilsError(s.error, operation, filePath)]
    ELSE s

\* return value, once s has run without throwing.
WithValue(s, value) == IF Threw(s) THEN s ELSE [s EXCEPT !.value = value]

\* FileUtils.ensureFileExists
EnsureFileExists(f, filePath) ==
    WrapAs(Access(f, filePath), "ensureExists", filePath)

\* deleteFolder without force: a path that is gone is an error.
DeleteFolderTreeNoForce(f, folderPath) ==
    WrapAs(Rm(f, folderPath, FALSE), "deleteFolder", folderPath)

\* FileUtils.deleteFolder
DeleteFolderTree(f, folderPath) ==
    WrapAs(Rm(f, folderPath, TRUE), "deleteFolder", folderPath)

\* FileUtils.ensureExistsAndDelete: the removal that follows the check a.
RemoveChecked(a, fullPath, isFolder) ==
    IF Threw(a) THEN a
    ELSE IF isFolder THEN Then(a, Rm(a.fs, fullPath, TRUE))
    ELSE Then(a, Unlink(a.fs, fullPath))

\* ensureExistsAndDelete without its existence check.
EnsureExistsAndDeleteUnchecked(f, fullPath, isFolder) ==
    RemoveChecked(Returned(f, Undefined, <<>>), fullPath, isFolder)

\* FileUtils.ensureExistsAndDelete
EnsureExistsAndDelete(f, fullPath, isFolder) ==
    RemoveChecked(WrapAs(Access(f, fullPath),
                         IF isFolder THEN "deleteFolder" ELSE "delete", fullPath),
                  fullPath, isFolder)

\* What response.download(fullPath, callback) may do with the sink before it
\* calls back: the error it passes (NoError: the transfer completed) and what
\* it wrote to the sink by then.
Transfer(error, wrote) == [error |-> error, wrote |-> wrote]

Transfers(f, fullPath) ==
    IF Errno(f, fullPath) # "" THEN {Transfer(SysError(Errno(f, fullPath)), <<>>)}
    ELSE IF f[fullPath].kind = "dir" THEN {Transfer(SysError("EISDIR"), <<>>)}
    ELSE {Transfer(NoError, <<"headers", "body">>),
          Transfer(SysError("EACCES"), <<>>),
          Transfer(SysError("ECONNABORTED"), <<"headers", "partial">>)}

NoTransfer == Transfer(NoError, <<>>)

\* FileUtils.downloadFile, with the transfer t the sink performs.
DownloadFile(f, filePath, t) ==
    IF t.error.name # "none"
    THEN [Thrown(f, FileUtilsError(t.error, "download", filePath), <<"download">>)
             EXCEPT !.wrote = t.wrote]
    ELSE [Returned(f, Undefined, <<"download">>) EXCEPT !.wrote = t.wrote]

\* The existence check applied to every operation.
NeedsExistenceCheckAnyOperation(options, operation) == options.ensureExists

\* The conditions of the two pre-condition steps.
NeedsExistenceCheck(options, operation) ==
    options.ensureExists /\ operation \in {"read", "download"}

NeedsMkdir(options, operation) ==
    options.mkdir /\ operation \in {"write"}

\* case 'delete': the unlink that follows ensureExistsAndDelete (e).
UnlinkAgain(e, fullPath) ==
    IF Threw(e) THEN e ELSE Then(e, Unlink(e.fs, fullPath))

\* case 'deleteFolder': the deleteFolder that follows ensureExistsAndDelete (e).
DeleteFolderAgain(e, fullPath) ==
    IF Threw(e) THEN e ELSE Then(e, DeleteFolderTree(e.fs, fullPath))

\* const encoding = options.binary ? null : 'utf8'
ReadEncodingAlwaysText(options) == "utf8"

ReadEncoding(options) == IF options.binary THEN "null" ELSE "utf8"

\* The switch of performOperation, run from file system f.
Switch(f, req, fullPath, t) ==
    CASE req.operation = "read" ->
           ReadFile(f, fullPath, ReadEncoding(req.options))
      [] req.operation = "write" ->
           WithValue(WriteFile(f, fullPath, req.data,
                               IF req.options.binary THEN "null" ELSE "utf8"),
                     Message("File written successfully"))
      [] req.operation = "download" ->
           IF req.response = "none"
           THEN Thrown(f, PlainError("Response object is required for download"), <<>>)
           ELSE DownloadFile(f, req.filePath, t)
      [] req.operation = "delete" ->
           WithValue(UnlinkAgain(EnsureExistsAndDelete(f, fullPath, FALSE), fullPath),
                     Message("File deleted successfully"))
      [] req.operation = "deleteFolder" ->
           WithValue(DeleteFolderAgain(EnsureExistsAndDelete(f, fullPath, TRUE), fullPath),
                     Message("Folder deleted successfully"))
      [] OTHER -> Thrown(f, PlainError("Invalid file operation"), <<>>)

\* if (options.ensureExists && ...) await FileUtils.ensureFileExists(fullPath)
ExistenceStep(f, req) ==
    IF NeedsExistenceCheck(req.options, req.operation)
    THEN EnsureFileExists(f, Resolve(req.filePath))
    ELSE Returned(f, Undefined, <<>>)

\* if (options.mkdir && ...) await fs.mkdir(dirname(fullPath), {recursive: true})
MkdirStep(s, req) ==
    IF Threw(s) \/ ~NeedsMkdir(req.options, req.operation) THEN s
    ELSE Then(s, Mkdir(s.fs, Dirname(Resolve(req.filePath))))

SwitchStep(s, req, t) ==
    IF Threw(s) THEN s ELSE Then(s, Switch(s.fs, req, Resolve(req.filePath), t))

\* A catch that rethrows what it caught.
CatchRethrow(error, operation, filePath) == error

\* The top-level catch of performOperation.
Catch(error, operation, filePath) == FileUtilsError(error, operation, filePath)

CatchStep(s, req) ==
    IF Threw(s) THEN [s EXCEPT !.error = Catch(s.error, req.operation, req.filePath)]
    ELSE s

\* FileUtils.performOperation on file system f; t is the transfer the sink
\* performs if the call reaches response.download.
PerformOperation(f, req, t) ==
    CatchStep(SwitchStep(MkdirStep(ExistenceStep(f, req), req), req, t), req)

\* -------------------------------------------------------------- the state
VARIABLES
    fs,       \* the file system
    pc,       \* "idle", "settled" (performOperation's promise settled), "responded"
    caller,   \* who awaits the call: "lib", or the route that made it
    req,      \* the config object of the call
    out,      \* how the promise settled
    before,   \* the file system when the call was made
    res,      \* the Express response of the route: what the route did with it
    prev      \* the write that resolved just before this call, if one did

vars == <<fs, pc, caller, req, out, before, res, prev>>

Options == [ensureExists : BOOLEAN, mkdir : BOOLEAN, binary : BOOLEAN]
NoOptions == [ensureExists |-> FALSE, mkdir |-> FALSE, binary |-> FALSE]

Request(operation, filePath, options, data, response) ==
    [operation |-> operation, filePath |-> filePath, options |-> options,
     data |-> data, response |-> response]

NoRequest == Request("none", <<>>, NoOptions, NoData, "none")

NoOut == [settled |-> "none", value |-> Undefined, error |-> NoError,
          prims |-> <<>>, wrote |-> <<>>]

NoBody == [error |-> "", operation |-> "", filePath |-> <<>>, message |-> ""]
NoRes == [statusCode |-> 200, sent |-> <<>>]

NoWrite == [fullPath |-> <<>>, data |-> NoData, binary |-> FALSE]

\* Operation names the switch does not know.
UnknownOperations == {"copy", ""}

\* The literal paths of the two routes.
DownloadRoutePath == <<"a", "b">>
FolderRoutePath == <<"a", "a">>

Init ==
    /\ fs \in FileSystems
    /\ pc = "idle"
    /\ caller = "none"
    /\ req = NoRequest
    /\ out = NoOut
    /\ before = fs
    /\ res = NoRes
    /\ prev = NoWrite

\* Caller c invokes performOperation(r); the promise settles.
Call(c, r, t) ==
    /\ \E s \in {PerformOperation(fs, r, t)} :
           /\ fs' = s.fs
           /\ out' = [settled |-> IF Threw(s) THEN "rejected" ELSE "resolved",
                      value |-> s.value, error |-> s.error,
                      prims |-> s.prims, wrote |-> s.wrote]
    /\ pc' = "settled"
    /\ caller' = c
    /\ req' = r
    /\ before' = fs
    /\ res' = NoRes
    /\ prev' = prev

Read ==
    /\ pc = "idle"
    /\ \E p \in InputPaths, o \in Options :
           Call("lib", Request("read", p, o, NoData, "none"), NoTransfer)

\* The data of the writes: text, bytes, or none.
SomeData == {Str(<<233>>), Buf(<<195, 169>>), NoData}

Write ==
    /\ pc = "idle"
    /\ \E p \in InputPaths, o \in Options, d \in SomeData :
           Call("lib", Request("write", p, o, d, "none"), NoTransfer)

Delete ==
    /\ pc = "idle"
    /\ \E p \in InputPaths, o \in Options :
           Call("lib", Request("delete", p, o, NoData, "none"), NoTransfer)

DeleteFolder ==
    /\ pc = "idle"
    /\ \E p \in InputPaths, o \in Options :
           Call("lib", Request("deleteFolder", p, o, NoData, "none"), NoTransfer)

Download ==
    /\ pc = "idle"
    /\ \E p \in InputPaths, o \in Options, r \in {"none", "sink"} :
           \E t \in Transfers(fs, Resolve(p)) :
               Call("lib", Request("download", p, o, NoData, r), t)

UnknownOperation ==
    /\ pc = "idle"
    /\ \E n \in UnknownOperations, p \in InputPaths, o \in Options :
           Call("lib", Request(n, p, o, NoData, "none"), NoTransfer)

\* The README's callers: await resumes, the outcome is logged.
Return ==
    /\ pc = "settled"
    /\ caller = "lib"
    /\ pc' = "idle"
    /\ caller' = "none"
    /\ req' = NoRequest
    /\ out' = NoOut
    /\ before' = fs
    /\ res' = NoRes
    /\ prev' = NoWrite
    /\ UNCHANGED fs

\* A caller that writes a file and reads it back: the write, ...
RoundTripWrite ==
    /\ pc = "idle"
    /\ \E p \in ChainPaths, m \in BOOLEAN, b \in BOOLEAN, d \in DataValues :
           Call("lib", Request("write", p, [ensureExists |-> FALSE, mkdir |-> m, binary |-> b],
                               d, "none"), NoTransfer)

\* ... its await resuming, ...
RoundTripReturn ==
    /\ pc = "settled"
    /\ caller = "lib"
    /\ pc' = "idle"
    /\ caller' = "none"
    /\ req' = NoRequest
    /\ out' = NoOut
    /\ before' = fs
    /\ res' = NoRes
    /\ prev' = IF req.operation = "write" /\ out.settled = "resolved"
               THEN [fullPath |-> Resolve(req.filePath), data |-> req.data,
                     binary |-> req.options.binary]
               ELSE NoWrite
    /\ UNCHANGED fs

\* ... and the read.
RoundTripRead ==
    /\ pc = "idle"
    /\ \E p \in ChainPaths, e \in BOOLEAN, b \in BOOLEAN :
           Call("lib", Request("read", p, [ensureExists |-> e, mkdir |-> FALSE, binary |-> b],
                               NoData, "none"), NoTransfer)

\* app.get('/download-file')
DownloadRoute ==
    /\ pc = "idle"
    /\ \E t \in Transfers(fs, Resolve(DownloadRoutePath)) :
           Call("GET /download-file",
                Request("download", DownloadRoutePath, NoOptions, NoData, "sink"), t)

\* app.delete('/delete-folder')
DeleteFolderRoute ==
    /\ pc = "idle"
    /\ Call("DELETE /delete-folder",
            Request("deleteFolder", FolderRoutePath, NoOptions, NoData, "none"),
            NoTransfer)

\* The .catch callback of both routes.
ErrorBody(error) ==
    IF error.name = "FileUtilsError"
    THEN [NoBody EXCEPT !.error = error.message, !.operation = error.operation,
                        !.filePath = error.filePath]
    ELSE [NoBody EXCEPT !.error = "An unexpected error occurred"]

RouteCatch ==
    /\ pc = "settled"
    /\ caller # "lib"
    /\ out.settled = "rejected"
    /\ res' = [statusCode |-> 500, sent |-> Append(res.sent, ErrorBody(out.error))]
    /\ pc' = "responded"
    /\ UNCHANGED <<fs, caller, req, out, before, prev>>

\* The .then callback of the delete-folder route.
DeleteFolderRouteThen ==
    /\ pc = "settled"
    /\ caller = "DELETE /delete-folder"
    /\ out.settled = "resolved"
    /\ res' = [res EXCEPT !.sent =
                   Append(@, [NoBody EXCEPT !.message = "Folder deleted successfully"])]
    /\ pc' = "responded"
    /\ UNCHANGED <<fs, caller, req, out, before, prev>>

\* The request is over; the next one gets a response object of its own.
RequestEnd ==
    /\ \/ pc = "responded"
       \/ pc = "settled" /\ caller = "GET /download-file" /\ out.settled = "resolved"
    /\ pc' = "idle"
    /\ caller' = "none"
    /\ req' = NoRequest
    /\ out' = NoOut
    /\ before' = fs
    /\ res' = NoRes
    /\ prev' = NoWrite
    /\ UNCHANGED fs

Next ==
    \/ Read
    \/ Write
    \/ Delete
    \/ DeleteFolder
    \/ Download
    \/ UnknownOperation
    \/ Return
    \/ DownloadRoute
    \/ DeleteFolderRoute
    \/ RouteCatch
    \/ DeleteFolderRouteThen
    \/ RequestEnd

Spec == Init /\ [][Next]_vars

InitRoundTrip ==
    /\ fs = EmptyFs
    /\ pc = "idle"
    /\ caller = "none"
    /\ req = NoRequest
    /\ out = NoOut
    /\ before = fs
    /\ res = NoRes
    /\ prev = NoWrite

NextRoundTrip ==
    \/ RoundTripWrite
    \/ RoundTripReturn
    \/ RoundTripRead

SpecRoundTrip == InitRoundTrip /\ [][NextRoundTrip]_vars

\* ------------------------------------------------------------- properties
FullPath == Resolve(req.filePath)
Rejected == out.settled = "rejected"
Resolved == out.settled = "resolved"

\* The path the call was made on named nothing when the call was made.
Missing == Errno(before, FullPath) # ""

\* The raw failure under the error the caller received.
RawCause(error) ==
    IF error.originalError.name = "FileUtilsError"
    THEN error.originalError.originalError
    ELSE error.originalError

\* The bytes of a value: a string counts as its UTF-8 encoding.
ContentBytes(v) == IF v.kind = "string" THEN Utf8Encode(v.units) ELSE v.units

RECURSIVE WellFormedUtf8(_)
WellFormedUtf8(bytes) ==
    IF bytes = <<>> THEN TRUE
    ELSE IF bytes[1] < 128 THEN WellFormedUtf8(Tail(bytes))
    ELSE /\ bytes[1] >= 194 /\ bytes[1] <= 223
         /\ Len(bytes) >= 2
         /\ IsCont(bytes[2])
         /\ WellFormedUtf8(SubSeq(bytes, 3, Len(bytes)))

\* C1: a call that fails rejects with a FileUtilsError that carries the
\* operation and the filePath of the request; no raw error reaches the caller,
\* and no route answers with the generic body.
C1_FailureIsNormalized ==
    /\ Rejected =>
           /\ out.error.name = "FileUtilsError"
           /\ out.error.operation = req.operation
           /\ out.error.filePath = req.filePath
    /\ \A i \in 1..Len(res.sent) : res.sent[i].error # "An unexpected error occurred"

C1_Witness ==
    /\ Rejected
    /\ req.operation = "write"
    /\ req.options.mkdir
    /\ out.error.originalError.name = "Error"
    /\ out.error.originalError.code = "ENOTDIR"

\* C2: 'delete' on an existing regular file resolves with 'File deleted
\* successfully', the file is gone and every other entry is as it was.
C2_DeleteSucceeds ==
    (pc = "settled" /\ req.operation = "delete"
       /\ Errno(before, FullPath) = "" /\ before[FullPath].kind = "file")
    => /\ Resolved
       /\ out.value = Message("File deleted successfully")
       /\ fs = [before EXCEPT ![FullPath] = Absent]

\* C3: with ensureExists set, a read or download of a path that does not exist
\* fails before the primitive starts, with an error tagged "ensureExists".
C3_TaggedEnsureExists ==
    (pc = "settled" /\ req.options.ensureExists
       /\ req.operation \in {"read", "download"} /\ Missing)
    => /\ Rejected
       /\ out.prims = <<"access">>
       /\ out.error.operation = "ensureExists"

\* C4: the cause of the error the caller receives is the raw failure, never
\* another FileUtilsError.
C4_NormalizedOnce ==
    Rejected => /\ out.error.name = "FileUtilsError"
                /\ out.error.originalError.name = "Error"

\* C5 as stated: 'delete' or 'deleteFolder' on a path that does not exist fails
\* tagged with that operation, with message "File not found", and changes nothing.
C5_MissingIsNotFound ==
    (pc = "settled" /\ req.operation \in {"delete", "deleteFolder"} /\ Missing)
    => /\ Rejected
       /\ out.error.name = "FileUtilsError"
       /\ out.error.operation = req.operation
       /\ out.error.message = "File not found"
       /\ fs = before

\* C5 amended: the same, for a path whose existence check reports not-found
\* (the path is absent and every ancestor of it is a directory).
C5_NotFoundIsNotFound ==
    (pc = "settled" /\ req.operation \in {"delete", "deleteFolder"}
       /\ Errno(before, FullPath) = "ENOENT")
    => /\ Rejected
       /\ out.error.name = "FileUtilsError"
       /\ out.error.operation = req.operation
       /\ out.error.message = "File not found"
       /\ fs = before

C5_Witness ==
    /\ pc = "settled"
    /\ req.operation = "deleteFolder"
    /\ Errno(before, FullPath) = "ENOENT"
    /\ Len(FullPath) > 2
    /\ Rejected

\* C6: 'deleteFolder' on an existing directory resolves; the root and every
\* path beneath it are gone, every other entry is as it was, and the second
\* removal, of a tree that is already gone, does not fail the call.
C6_TreeRemoved ==
    (pc = "settled" /\ req.operation = "deleteFolder"
       /\ Errno(before, FullPath) = "" /\ before[FullPath].kind = "dir")
    => /\ Resolved
       /\ out.value = Message("Folder deleted successfully")
       /\ out.prims = <<"access", "rm", "rm">>
       /\ Errno(fs, FullPath) = "ENOENT"
       /\ \A q \in Paths : fs[q] = IF IsPrefix(FullPath, q) THEN Absent ELSE before[q]

C6_Witness ==
    /\ pc = "settled"
    /\ req.operation = "deleteFolder"
    /\ FullPath = Cwd \o <<"a">>
    /\ before[Cwd \o <<"a", "a">>].kind = "dir"
    /\ before[Cwd \o <<"a", "a", "b">>].kind = "file"
    /\ before[Cwd \o <<"a", "b">>].kind = "file"
    /\ before[Cwd \o <<"b">>].kind = "file"
    /\ Resolved

\* The read that follows a resolved write of the same path, same binary option.
ReadBack ==
    /\ pc = "settled"
    /\ req.operation = "read"
    /\ prev # NoWrite
    /\ FullPath = prev.fullPath
    /\ req.options.binary = prev.binary

\* A write with mkdir set below a parent directory that does not exist.
WriteBelowMissingParent ==
    /\ pc = "settled"
    /\ req.operation = "write"
    /\ req.options.mkdir
    /\ req.data.kind # "null"
    /\ Errno(before, Dirname(FullPath)) # ""

WriteCreatedParents ==
    /\ Resolved
    /\ Errno(fs, FullPath) = ""
    /\ fs[FullPath] = File(ContentBytes(req.data))

\* C7 as stated: the read returns content identical to the data written,
\* whatever the data and the binary option; a write with mkdir creates the
\* missing parent directories and succeeds.
C7_RoundTrip ==
    /\ ReadBack => Resolved /\ ContentBytes(out.value) = ContentBytes(prev.data)
    /\ WriteBelowMissingParent => WriteCreatedParents

\* C7 amended: the read returns the bytes written when the data is a string,
\* or binary is set, or the bytes are well-formed UTF-8; a write with mkdir
\* creates the missing parent directories and succeeds when no ancestor of
\* the path is a regular file.
C7_RoundTripOfText ==
    /\ (ReadBack /\ (prev.data.kind = "string" \/ prev.binary
                       \/ WellFormedUtf8(prev.data.units)))
       => /\ Resolved
          /\ ContentBytes(out.value) = ContentBytes(prev.data)
          /\ out.value.kind = IF req.options.binary THEN "buffer" ELSE "string"
    /\ (WriteBelowMissingParent /\ Errno(before, Dirname(FullPath)) = "ENOENT")
       => WriteCreatedParents

C7_Witness ==
    /\ ReadBack
    /\ Len(FullPath) = MaxDepth + 1
    /\ prev.data = Buf(<<195, 169>>)
    /\ ~prev.binary
    /\ out.value = Str(<<233>>)

\* C8: an unrecognized operation fails with "Invalid file operation" whatever
\* the path and the options, without touching the file system.
C8_InvalidOperation ==
    (pc = "settled" /\ req.operation \in UnknownOperations)
    => /\ Rejected
       /\ out.error.message = "Invalid file operation"
       /\ out.prims = <<>>
       /\ fs = before

C8_Witness ==
    /\ pc = "settled"
    /\ req.operation \in UnknownOperations
    /\ req.options.ensureExists
    /\ req.options.mkdir
    /\ Errno(before, Dirname(FullPath)) = "ENOENT"
    /\ Rejected

\* C9: a download that fails after it has started streaming rejects, and from
\* then on the route does nothing more to the sink: it sets no status and
\* sends no body.
C9_SinkLeftAlone ==
    (caller = "GET /download-file" /\ out.wrote = <<"headers", "partial">>)
    => Rejected /\ res = NoRes

\* The message the table of the Error Normalizer gives for a raw failure.
TableMessage(raw) ==
    IF raw.code = "ENOENT" THEN "File not found"
    ELSE IF raw.code = "EACCES" THEN "Permission denied"
    ELSE IF raw.code = "ENOTDIR" THEN "Not a directory"
    ELSE IF raw.code = "EISDIR" THEN "Is a directory, not a file"
    ELSE raw.message

\* C10: the message of the error the caller receives is the table's message
\* for the raw failure, also where a helper wrapped the failure first.
C10_MessageFromTable ==
    Rejected => /\ RawCause(out.error).name = "Error"
                /\ out.error.message = TableMessage(RawCause(out.error))

C10_Witness ==
    /\ Rejected
    /\ out.error.originalError.name = "FileUtilsError"
    /\ RawCause(out.error).code = "ENOTDIR"
    /\ out.error.message = "Not a directory"

====
